---------------------------- MODULE Spec2Model ----------------------------
(***************************************************************************)
(* A model of mth::fraction<INT, error_exp> (fraction.hpp): the canonical  *)
(* rational value type, its reduction rule set(), and its exact operators. *)
(*                                                                         *)
(* A fraction value is the record of the two fields every operation reads, *)
(* numerator and denominator.  The fields initial_num and initial_den are  *)
(* written by set() and read by nothing, so they are left out.             *)
(***************************************************************************)
EXTENDS Integers, Sequences, FiniteSets, TLC

\* Largest magnitude of a numerator or denominator a register may hold.
MaxVal == 4
\* Largest magnitude of an integer operand.
MaxInt == 2
\* Largest magnitude of a constructor argument.
MaxArg == 8
\* Largest magnitude of a component of the value left behind by an
\* undefined set( 0, 0 ) that does not trap.
MaxJunk == 1

-----------------------------------------------------------------------------
(* Integer helpers of the C++ standard library, on unbounded integers.     *)

\* std::labs
labs(i) == IF i < 0 THEN -i ELSE i

\* Euclid's algorithm on naturals.
RECURSIVE gcd_nat(_, _)
gcd_nat(m, n) == IF n = 0 THEN m ELSE gcd_nat(n, m % n)

\* std::gcd( m, n ): the gcd of |m| and |n|; std::gcd( 0, 0 ) is 0.
std_gcd(m, n) == gcd_nat(labs(m), labs(n))

\* (INT)std::copysign( g, d ): magnitude of g, sign of d; an integer d = 0
\* converts to +0.0, so the sign is positive.
copysign(g, d) == IF d < 0 THEN -labs(g) ELSE labs(g)

\* C++ integer division: truncation toward zero.  d is never 0 here.
c_div(n, d) ==
  IF (n < 0) = (d < 0) THEN labs(n) \div labs(d) ELSE -(labs(n) \div labs(d))

-----------------------------------------------------------------------------
(* The value type.                                                         *)

Frac(n, d) == [numerator |-> n, denominator |-> d]

\* The pair ( 0, 0 ), which set() cannot reduce: std::gcd( 0, 0 ) is 0 and both
\* divisions are divisions by zero (undefined behaviour).
ZeroZero == Frac(0, 0)

\* Faulty variants of set(), against which the properties are tried:
\* the sign of the denominator is dropped instead of moved to the numerator;
set_sign_dropped(num, den) ==
  IF num = 0 /\ den = 0
    THEN ZeroZero
    ELSE LET gcd == std_gcd(num, den)
         IN  Frac(c_div(num, gcd), c_div(labs(den), gcd))

\* a zero denominator is stored without reducing the numerator;
set_infinity_unreduced(num, den) ==
  IF den = 0
    THEN Frac(num, 0)
    ELSE LET gcd == std_gcd(num, den)
         IN  Frac(c_div(num, copysign(gcd, den)), c_div(labs(den), gcd))

\* the pair is sign-normalised but not divided by the gcd.
set_unreduced(num, den) ==
  IF num = 0 /\ den = 0
    THEN ZeroZero
    ELSE Frac(c_div(num, copysign(1, den)), labs(den))

\* fraction::set( num, den ).  For ( 0, 0 ) the operator yields the pair a
\* division that returns 0 would store; the actions below replace it by every
\* outcome the undefined division can have.
set(num, den) ==
  IF num = 0 /\ den = 0
    THEN ZeroZero
    ELSE LET gcd == std_gcd(num, den)
         IN  Frac(c_div(num, copysign(gcd, den)), c_div(labs(den), gcd))

\* set() applied to an argument pair << num, den >>.
set_pair(p) == set(p[1], p[2])

\* fraction( num, den ) and fraction( num ).
fraction(num, den) == set(num, den)
fraction_INT(num) == set(num, 1)

f_0 == fraction(0, 1)
f_1 == fraction(1, 1)
f_inf == fraction(1, 0)

\* operator==: field equality.
op_eq(a, b) == (a.numerator = b.numerator) /\ (a.denominator = b.denominator)

\* Faulty variant: rounds the quotient down (std::floor) instead of toward 0.
floor_to_double(f) == f.numerator \div f.denominator

\* (INT)std::trunc( f.to_double() ) for a denominator other than 0: both
\* conversions and the quotient's truncation are exact below 2^53.
trunc_to_double(f) == c_div(f.numerator, f.denominator)

-----------------------------------------------------------------------------
(* The exact operations.  Each *_args operator is the pair the operation   *)
(* hands to set(); each *_calls operator lists, in order, the pairs handed *)
(* to set() while the operation runs.                                      *)

abs_args(f) == <<labs(f.numerator), f.denominator>>
abs(f) == set_pair(abs_args(f))

\* Faulty variant: the sign of the numerator is lost.
inv_args_unsigned(f) == <<f.denominator, labs(f.numerator)>>
inv_args(f) == <<f.denominator, f.numerator>>
inv(f) == set_pair(inv_args(f))

mediant_args(f1, f2) ==
  <<f1.numerator + f2.numerator, f1.denominator + f2.denominator>>
\* mediant returning its first argument.
mediant_stuck(f1, f2) == f1

mediant(f1, f2) == set_pair(mediant_args(f1, f2))

\* operator+( fraction ), operator+( INT ), operator+( INT, fraction )
\* Faulty variant: the numerators are added without cross-multiplying.
add_args_unscaled(a, rhs) ==
  <<a.numerator + rhs.numerator, a.denominator * rhs.denominator>>
add_args(a, rhs) ==
  <<a.numerator * rhs.denominator + a.denominator * rhs.numerator,
    a.denominator * rhs.denominator>>
op_add(a, rhs) == set_pair(add_args(a, rhs))

add_INT_args(a, rhs) == <<a.numerator + a.denominator * rhs, a.denominator>>
op_add_INT(a, rhs) == set_pair(add_INT_args(a, rhs))

INT_op_add(lhs, rhs) == op_add_INT(rhs, lhs)

\* operator++ and operator-- (prefix and postfix store the same value)
\* Faulty variant: 1 is added to the numerator, whatever the denominator.
inc_args_plus_one(f) == <<f.numerator + 1, f.denominator>>
inc_args(f) == <<f.numerator + f.denominator, f.denominator>>
op_inc(f) == set_pair(inc_args(f))

dec_args(f) == <<f.numerator - f.denominator, f.denominator>>
op_dec(f) == set_pair(dec_args(f))

\* operator-()
neg_args(f) == <<-f.numerator, f.denominator>>
op_neg(f) == set_pair(neg_args(f))

\* operator-( fraction ), operator-( INT ), operator-( INT, fraction )
\* Faulty variant: the left operand is negated instead of the right one.
op_sub_swapped(a, rhs) == op_add(op_neg(a), rhs)
op_sub(a, rhs) == op_add(a, op_neg(rhs))
sub_calls(a, rhs) == <<neg_args(rhs), add_args(a, op_neg(rhs))>>

op_sub_INT(a, rhs) == op_add_INT(a, -rhs)

INT_op_sub(lhs, rhs) == op_add_INT(op_neg(rhs), lhs)

\* operator*( fraction ), operator*( INT ), operator*( INT, fraction )
mul_args(a, rhs) ==
  <<a.numerator * rhs.numerator, a.denominator * rhs.denominator>>
op_mul(a, rhs) == set_pair(mul_args(a, rhs))

mul_INT_args(a, rhs) == <<a.numerator * rhs, a.denominator>>
op_mul_INT(a, rhs) == set_pair(mul_INT_args(a, rhs))

INT_op_mul(lhs, rhs) == op_mul_INT(rhs, lhs)

\* operator/( fraction ), operator/( INT ), operator/( INT, fraction )
div_args(a, rhs) ==
  <<a.numerator * rhs.denominator, a.denominator * rhs.numerator>>
\* Faulty variant: a zero divisor is special-cased to the positive infinity.
op_div_guarded(a, rhs) ==
  IF rhs.numerator = 0 THEN set(1, 0) ELSE set_pair(div_args(a, rhs))
op_div(a, rhs) == set_pair(div_args(a, rhs))

div_INT_args(a, rhs) == <<a.numerator, a.denominator * rhs>>
op_div_INT(a, rhs) == set_pair(div_INT_args(a, rhs))

INT_div_args(lhs, rhs) == <<lhs * rhs.denominator, rhs.numerator>>
INT_op_div(lhs, rhs) == set_pair(INT_div_args(lhs, rhs))

\* sq() and cb()
sq(f) == op_mul(f, f)
cb(f) == op_mul(op_mul(f, f), f)

\* operator%( fraction ), operator%( INT ), operator%( INT, fraction )
mod_guard(a, rhs) ==
  (rhs.numerator = 0) \/ (rhs.denominator = 0) \/ (a.denominator = 0)
op_mod(a, rhs) ==
  IF mod_guard(a, rhs)
    THEN f_inf
    ELSE op_sub(a, INT_op_mul(trunc_to_double(op_div(a, rhs)), rhs))
mod_calls(a, rhs) ==
  IF mod_guard(a, rhs)
    THEN << >>
    ELSE LET q == trunc_to_double(op_div(a, rhs))
         IN  <<div_args(a, rhs), mul_INT_args(rhs, q)>>
               \o sub_calls(a, INT_op_mul(q, rhs))

mod_INT_guard(a, rhs) == (a.denominator = 0) \/ (rhs = 0)
op_mod_INT(a, rhs) ==
  IF mod_INT_guard(a, rhs)
    THEN f_inf
    ELSE op_sub_INT(a, trunc_to_double(op_div_INT(a, rhs)) * rhs)

INT_op_mod(lhs, rhs) == op_mod(fraction(lhs, 1), rhs)

-----------------------------------------------------------------------------
(* The state: two fraction objects x and y, and the full expression being  *)
(* evaluated: the operation it applied, its operands, the temporary it     *)
(* returned.  Every operation's result is assigned to x (operator=), as    *)
(* the compound operators +=, -=, ... do; constructors build y.  At the    *)
(* end of the full expression the temporaries are destroyed (Discard).     *)

VARIABLES
  x,        \* a fraction object: the left operand and the target
  y,        \* a fraction object: the right operand
  op,       \* the operation of the current full expression, or "idle"
  a,        \* x as it was when that operation began
  b,        \* y as it was when that operation began
  args,     \* its integer arguments
  ret,      \* the value it returned
  calls,    \* the argument pairs it handed to set(), in order
  ub,       \* TRUE once set( 0, 0 ) has been executed
  trapped   \* TRUE when that division by zero stopped the program

\* The calls of the free functions and of the members that do not change
\* the object, one record each: the call's arguments, the locals of its
\* loop and its result.  A record with pc = "off" is a call not made.
VARIABLES
  ord,      \* comparisons of three fractions u, v, w
  sb,       \* to_fraction_using_stern_brocot_with_mediants( from )
  cf,       \* to_continued_fraction( num ) and to_fraction( span )
  rt,       \* simplify_rt( rt )
  pw        \* pow( exp )

fvars == <<x, y, op, a, b, args, ret, calls, ub, trapped>>
algs == <<ord, sb, cf, rt, pw>>
vars == <<fvars, algs>>

Off == [pc |-> "off"]

Ints == -MaxInt..MaxInt
Args == -MaxArg..MaxArg

\* The values the undefined set( 0, 0 ) may leave in the object.
Junk == {Frac(i, j) : i \in -MaxJunk..MaxJunk, j \in -MaxJunk..MaxJunk}

InRange(f) == labs(f.numerator) <= MaxVal /\ labs(f.denominator) <= MaxVal

HasZeroZero(cs) == \E i \in DOMAIN cs : cs[i] = <<0, 0>>

\* fraction(): *this = f_0.
FracInit ==
  /\ x = f_0
  /\ y = f_0
  /\ op = "idle"
  /\ a = f_0
  /\ b = f_0
  /\ args = << >>
  /\ ret = f_0
  /\ calls = << >>
  /\ ub = FALSE
  /\ trapped = FALSE

Init ==
  /\ FracInit
  /\ ord = Off
  /\ sb = Off
  /\ cf = Off
  /\ rt = Off
  /\ pw = Off

\* The common shape of an operation on x: it hands the pairs cs to set(),
\* stores r in x and returns retv.  When one of the pairs is ( 0, 0 ) the
\* divisions in set() are by zero: the program traps, or goes on with an
\* arbitrary value.  What follows undefined behaviour is unconstrained, so
\* the run is followed no further once ub holds.
Run(name, ia, r, retv, cs) ==
  /\ ~ub
  /\ op = "idle"
  /\ op' = name
  /\ a' = x
  /\ b' = y
  /\ args' = ia
  /\ calls' = cs
  /\ y' = y
  /\ IF HasZeroZero(cs)
       THEN /\ ub' = TRUE
            /\ \/ /\ trapped' = TRUE
                  /\ UNCHANGED <<x, ret>>
               \/ /\ trapped' = FALSE
                  /\ \E j \in Junk : x' = j /\ ret' = j
       ELSE /\ InRange(r)
            /\ InRange(retv)
            /\ x' = r
            /\ ret' = retv
            /\ UNCHANGED <<ub, trapped>>
  /\ UNCHANGED algs

\* y = fraction{ num, den }
Construct(num, den) ==
  /\ ~ub
  /\ op = "idle"
  /\ op' = "fraction"
  /\ a' = f_0
  /\ b' = f_0
  /\ args' = <<num, den>>
  /\ calls' = <<<<num, den>>>>
  /\ x' = x
  /\ IF HasZeroZero(<<<<num, den>>>>)
       THEN /\ ub' = TRUE
            /\ \/ /\ trapped' = TRUE
                  /\ UNCHANGED <<y, ret>>
               \/ /\ trapped' = FALSE
                  /\ \E j \in Junk : y' = j /\ ret' = j
       ELSE /\ InRange(fraction(num, den))
            /\ y' = fraction(num, den)
            /\ ret' = fraction(num, den)
            /\ UNCHANGED <<ub, trapped>>
  /\ UNCHANGED algs

\* x = y and y = x (operator=)
AssignX == Run("x=y", << >>, y, y, << >>)
AssignY ==
  /\ ~ub
  /\ op = "idle"
  /\ y' = x
  /\ op' = "y=x"
  /\ a' = x
  /\ b' = y
  /\ args' = << >>
  /\ ret' = x
  /\ calls' = << >>
  /\ UNCHANGED <<x, ub, trapped>>
  /\ UNCHANGED algs

Abs == Run("abs", << >>, abs(x), abs(x), <<abs_args(x)>>)
Inv == Run("inv", << >>, inv(x), inv(x), <<inv_args(x)>>)
Neg == Run("neg", << >>, op_neg(x), op_neg(x), <<neg_args(x)>>)
Mediant == Run("mediant", << >>, mediant(x, y), mediant(x, y),
               <<mediant_args(x, y)>>)
Sq == Run("sq", << >>, sq(x), sq(x), <<mul_args(x, x)>>)
Cb == Run("cb", << >>, cb(x), cb(x),
         <<mul_args(x, x), mul_args(op_mul(x, x), x)>>)

PreInc == Run("++x", << >>, op_inc(x), op_inc(x), <<inc_args(x)>>)
PostInc == Run("x++", << >>, op_inc(x), x, <<inc_args(x)>>)
PreDec == Run("--x", << >>, op_dec(x), op_dec(x), <<dec_args(x)>>)
PostDec == Run("x--", << >>, op_dec(x), x, <<dec_args(x)>>)

Add == Run("x+y", << >>, op_add(x, y), op_add(x, y), <<add_args(x, y)>>)
Sub == Run("x-y", << >>, op_sub(x, y), op_sub(x, y), sub_calls(x, y))
Mul == Run("x*y", << >>, op_mul(x, y), op_mul(x, y), <<mul_args(x, y)>>)
Div == Run("x/y", << >>, op_div(x, y), op_div(x, y), <<div_args(x, y)>>)
Mod == Run("x%y", << >>, op_mod(x, y), op_mod(x, y), mod_calls(x, y))

AddINT(i) == Run("x+i", <<i>>, op_add_INT(x, i), op_add_INT(x, i),
                 <<add_INT_args(x, i)>>)
SubINT(i) == Run("x-i", <<i>>, op_sub_INT(x, i), op_sub_INT(x, i),
                 <<add_INT_args(x, -i)>>)
MulINT(i) == Run("x*i", <<i>>, op_mul_INT(x, i), op_mul_INT(x, i),
                 <<mul_INT_args(x, i)>>)
DivINT(i) == Run("x/i", <<i>>, op_div_INT(x, i), op_div_INT(x, i),
                 <<div_INT_args(x, i)>>)
ModINT(i) == Run("x%i", <<i>>, op_mod_INT(x, i), op_mod_INT(x, i),
                 IF mod_INT_guard(x, i)
                   THEN << >>
                   ELSE <<div_INT_args(x, i),
                          add_INT_args(x,
                            -(trunc_to_double(op_div_INT(x, i)) * i))>>)

INTAdd(i) == Run("i+x", <<i>>, INT_op_add(i, x), INT_op_add(i, x),
                 <<add_INT_args(x, i)>>)
INTSub(i) == Run("i-x", <<i>>, INT_op_sub(i, x), INT_op_sub(i, x),
                 <<neg_args(x), add_INT_args(op_neg(x), i)>>)
INTMul(i) == Run("i*x", <<i>>, INT_op_mul(i, x), INT_op_mul(i, x),
                 <<mul_INT_args(x, i)>>)
INTDiv(i) == Run("i/x", <<i>>, INT_op_div(i, x), INT_op_div(i, x),
                 <<INT_div_args(i, x)>>)
INTMod(i) == Run("i%x", <<i>>, INT_op_mod(i, x), INT_op_mod(i, x),
                 <<<<i, 1>>>> \o mod_calls(fraction(i, 1), x))

\* The end of the full expression: its temporaries are destroyed.
Discard ==
  /\ ~ub
  /\ op # "idle"
  /\ op' = "idle"
  /\ a' = f_0
  /\ b' = f_0
  /\ args' = << >>
  /\ ret' = f_0
  /\ calls' = << >>
  /\ UNCHANGED <<x, y, ub, trapped>>
  /\ UNCHANGED algs

Next ==
  \/ \E num \in Args, den \in Args : Construct(num, den)
  \/ AssignX
  \/ AssignY
  \/ Abs
  \/ Inv
  \/ Neg
  \/ Mediant
  \/ Sq
  \/ Cb
  \/ PreInc
  \/ PostInc
  \/ PreDec
  \/ PostDec
  \/ Add
  \/ Sub
  \/ Mul
  \/ Div
  \/ Mod
  \/ \E i \in Ints : AddINT(i)
  \/ \E i \in Ints : SubINT(i)
  \/ \E i \in Ints : MulINT(i)
  \/ \E i \in Ints : DivINT(i)
  \/ \E i \in Ints : ModINT(i)
  \/ \E i \in Ints : INTAdd(i)
  \/ \E i \in Ints : INTSub(i)
  \/ \E i \in Ints : INTMul(i)
  \/ \E i \in Ints : INTDiv(i)
  \/ \E i \in Ints : INTMod(i)
  \/ Discard

Spec == Init /\ [][Next]_vars

-----------------------------------------------------------------------------
(* Comparison.  operator== compares the fields; operator<=> compares the   *)
(* cross products, and the relational operators <, <=, >, >= are the       *)
(* rewritten expressions ( a <=> b ) < 0, ... of the language.             *)

\* Largest magnitude of a numerator or denominator of a compared value.
MaxOrd == 3

\* The three-way comparison of two integers.
int_cmp(l, r) ==
  IF l < r THEN "less" ELSE IF l > r THEN "greater" ELSE "equal"

\* operator<=>, with the operands' numerators alone.
op_cmp_numerators(lhs, rhs) == int_cmp(lhs.numerator, rhs.numerator)

\* operator<=>
op_cmp(lhs, rhs) ==
  int_cmp(lhs.numerator * rhs.denominator, rhs.numerator * lhs.denominator)

op_lt(lhs, rhs) == op_cmp(lhs, rhs) = "less"

\* The values fraction{ n, d } over the small pairs other than ( 0, 0 ).
OrdVals ==
  {fraction(n, d) : <<n, d>> \in
     ((-MaxOrd..MaxOrd) \X (-MaxOrd..MaxOrd)) \ {<<0, 0>>}}

OrdInit ==
  /\ FracInit
  /\ ord \in [pc : {"call"}, u : OrdVals, v : OrdVals, w : OrdVals]
  /\ sb = Off
  /\ cf = Off
  /\ rt = Off
  /\ pw = Off

\* u == v, u <=> v, u < v, ... : every comparison among u, v and w.  The
\* operators !=, <=, > and >= are the ones the compiler rewrites from
\* operator== and operator<=>.
Compare ==
  /\ ord.pc = "call"
  /\ ord' = [pc |-> "done", u |-> ord.u, v |-> ord.v, w |-> ord.w,
             eq |-> op_eq(ord.u, ord.v),
             ne |-> ~op_eq(ord.u, ord.v),
             cmp |-> op_cmp(ord.u, ord.v),
             lt |-> op_lt(ord.u, ord.v),
             le |-> op_cmp(ord.u, ord.v) # "greater",
             gt |-> op_cmp(ord.u, ord.v) = "greater",
             ge |-> op_cmp(ord.u, ord.v) # "less",
             lt_vw |-> op_lt(ord.v, ord.w),
             lt_uw |-> op_lt(ord.u, ord.w)]
  /\ UNCHANGED <<fvars, sb, cf, rt, pw>>

OrdNext == Compare

SpecOrd == OrdInit /\ [][OrdNext]_vars

-----------------------------------------------------------------------------
(* Floating-point values.  A finite double is modelled as the rational     *)
(* number it stands for, a record [n, d] in lowest terms with d > 0, and   *)
(* the operations on doubles as the exact operations on those numbers:     *)
(* the rounding of a double operation to 53 bits is left out.  Sums are    *)
(* formed over the least common denominator and numbers are compared by    *)
(* their integer parts and the reciprocals of their fractional parts, so   *)
(* that no term exceeds the operands' own magnitude.                       *)

\* Largest magnitude of a numerator, and largest denominator, of a double
\* handed to the approximators.
MaxDbl == 12
\* Largest number of decimal places of the tolerance, -error_exp.
MaxErrExp == 2

dbl(n, d) ==
  LET g == copysign(std_gcd(n, d), d)
  IN  [n |-> c_div(n, g), d |-> c_div(d, g)]

dbl_add(p, q) ==
  LET l == (p.d \div std_gcd(p.d, q.d)) * q.d
  IN  dbl(p.n * (l \div p.d) + q.n * (l \div q.d), l)
dbl_sub(p, q) == dbl_add(p, dbl(-q.n, q.d))

\* pn/pd < qn/qd, for pd > 0 and qd > 0
RECURSIVE rat_lt(_, _, _, _)
rat_lt(pn, pd, qn, qd) ==
  IF pn \div pd # qn \div qd THEN pn \div pd < qn \div qd
  ELSE IF qn % qd = 0 THEN FALSE
  ELSE IF pn % pd = 0 THEN TRUE
  ELSE rat_lt(qd, qn % qd, pd, pn % pd)

dbl_lt(p, q) == rat_lt(p.n, p.d, q.n, q.d)
dbl_gt(p, q) == dbl_lt(q, p)
\* std::abs
dbl_abs(p) == dbl(labs(p.n), p.d)

\* 1.0 / p, p # 0
dbl_inv(p) == dbl(p.d, p.n)

\* std::floor and std::ceil, converted to INT
floor_INT(p) == p.n \div p.d

\* (INT)std::ceil( p ) rounding down.
ceil_INT_down(p) == p.n \div p.d

\* (INT)std::ceil( p ) one too high.
ceil_INT_above(p) == (p.n \div p.d) + 2

ceil_INT(p) == IF p.n % p.d = 0 THEN p.n \div p.d ELSE floor_INT(p) + 1

\* to_double(), of a finite fraction
to_double(f) == dbl(f.numerator, f.denominator)

\* The doubles of the calls.
Dbls == {dbl(n, d) : n \in -MaxDbl..MaxDbl, d \in 1..MaxDbl}

\* pow10( x ): 1.0 divided -x times by 10.0, or multiplied x times.
RECURSIVE pow10_loop(_, _)
pow10_loop(result, i) ==
  IF i = 0 THEN result
  ELSE IF i < 0 THEN pow10_loop(dbl(result.n, result.d * 10), i + 1)
  ELSE pow10_loop(dbl(result.n * 10, result.d), i - 1)

\* pow10( x ) with the last step of its loop left out.
pow10_one_short(e) ==
  pow10_loop(dbl(1, 1), IF e < 0 THEN e + 1 ELSE IF e > 0 THEN e - 1 ELSE 0)

pow10(e) == pow10_loop(dbl(1, 1), e)

\* fraction< INT, error_exp >::error
error(error_exp) == pow10(error_exp)

\* The default of the template parameter error_exp.
default_error_exp == -6

\* The other template arguments error_exp of the calls.
ErrorExps == -MaxErrExp..-1

-----------------------------------------------------------------------------
(* to_fraction_using_stern_brocot_with_mediants( from ), one action for    *)
(* each way through an iteration of its loop, and fraction( double ),      *)
(* which assigns the result to the object under construction.              *)

\* med.to_double() - from > error, with no tolerance: error taken as 0.
sb_above_no_tolerance(med, from, error_exp) ==
  dbl_gt(to_double(med), from)

\* med.to_double() - from > error, as med.to_double() > from + error
sb_above(med, from, error_exp) ==
  dbl_gt(to_double(med), dbl_add(from, error(error_exp)))

\* med.to_double() - from < -error, with no tolerance: error taken as 0.
sb_below_no_tolerance(med, from, error_exp) ==
  dbl_lt(to_double(med), from)

\* med.to_double() - from < -error, as med.to_double() < from - error
sb_below(med, from, error_exp) ==
  dbl_lt(to_double(med), dbl_sub(from, error(error_exp)))

\* A call with a finite argument: one of the small ones, one a rounding
\* error above 0 or above 9 like the powers approximated in the tests
\* (10^-7 stands for the rounding error), or the 3.141592654 of the
\* tests; ctor tells the call made by the constructor fraction( double )
\* from a direct call.
SBInit ==
  /\ FracInit
  /\ ord = Off
  /\ sb \in [pc : {"call"},
             from : Dbls \cup {dbl(1, 10000000), dbl(90000001, 10000000)},
             error_exp : ErrorExps, ctor : BOOLEAN]
            \cup [pc : {"call"}, from : {dbl(1570796327, 500000000)},
                  error_exp : {default_error_exp}, ctor : BOOLEAN]
  /\ cf = Off
  /\ rt = Off
  /\ pw = Off

\* fraction med{}; high{ (INT)std::ceil( from ) }, low{ (INT)std::floor(
\* from ) }
SBEnter ==
  /\ sb.pc = "call"
  /\ sb' = [pc |-> "loop", from |-> sb.from, error_exp |-> sb.error_exp,
            ctor |-> sb.ctor,
            med |-> f_0,
            high |-> fraction_INT(ceil_INT(sb.from)),
            low |-> fraction_INT(floor_INT(sb.from))]
  /\ UNCHANGED <<fvars, ord, cf, rt, pw>>

\* med = mediant( low, high ); the first branch: high = med
SBHigh ==
  /\ sb.pc = "loop"
  /\ LET med == mediant(sb.low, sb.high)
     IN  /\ sb_above(med, sb.from, sb.error_exp)
         /\ sb' = [sb EXCEPT !.med = med, !.high = med]
  /\ UNCHANGED <<fvars, ord, cf, rt, pw>>

\* med = mediant( low, high ); the second branch: low = med
SBLow ==
  /\ sb.pc = "loop"
  /\ LET med == mediant(sb.low, sb.high)
     IN  /\ ~sb_above(med, sb.from, sb.error_exp)
         /\ sb_below(med, sb.from, sb.error_exp)
         /\ sb' = [sb EXCEPT !.med = med, !.low = med]
  /\ UNCHANGED <<fvars, ord, cf, rt, pw>>

\* med = mediant( low, high ); the last branch: break, and return med
SBBreak ==
  /\ sb.pc = "loop"
  /\ LET med == mediant(sb.low, sb.high)
     IN  /\ ~sb_above(med, sb.from, sb.error_exp)
         /\ ~sb_below(med, sb.from, sb.error_exp)
         /\ sb' = [pc |-> "ret", from |-> sb.from,
                   error_exp |-> sb.error_exp, ctor |-> sb.ctor,
                   med |-> med, high |-> sb.high, low |-> sb.low,
                   result |-> med]
  /\ UNCHANGED <<fvars, ord, cf, rt, pw>>

\* fraction( double ): *this = the value returned
SBConstruct ==
  /\ sb.pc = "ret"
  /\ sb.ctor
  /\ sb' = [pc |-> "constructed", from |-> sb.from,
            error_exp |-> sb.error_exp, ctor |-> sb.ctor,
            med |-> sb.med, high |-> sb.high, low |-> sb.low,
            result |-> sb.result, this |-> sb.result]
  /\ UNCHANGED <<fvars, ord, cf, rt, pw>>

SBNext ==
  \/ SBEnter
  \/ SBHigh
  \/ SBLow
  \/ SBBreak
  \/ SBConstruct

SpecSB == SBInit /\ [][SBNext]_vars

\* The call has a statement left to execute, and executing it changes the
\* state: SBNext is enabled.
SBRunning ==
  \/ sb.pc = "call"
  \/ /\ sb.pc = "loop"
     /\ LET med == mediant(sb.low, sb.high)
        IN  \/ sb_above(med, sb.from, sb.error_exp)
                 /\ [sb EXCEPT !.med = med, !.high = med] # sb
            \/ ~sb_above(med, sb.from, sb.error_exp)
                 /\ sb_below(med, sb.from, sb.error_exp)
                 /\ [sb EXCEPT !.med = med, !.low = med] # sb
            \/ ~sb_above(med, sb.from, sb.error_exp)
                 /\ ~sb_below(med, sb.from, sb.error_exp)
  \/ sb.pc = "ret" /\ sb.ctor

\* The function runs on one thread, which goes on while it has a
\* statement to execute: weak fairness of SBNext, WF_vars(SBNext), written
\* out with SBRunning for ENABLED <<SBNext>>_vars.
SpecSBFair == SpecSB /\ ([]<>(~SBRunning) \/ []<><<SBNext>>_vars)

-----------------------------------------------------------------------------
(* to_continued_fraction< max_iter, INT, error_exp >( num ) and            *)
(* to_fraction( from ).                                                    *)
(*                                                                         *)
(* The one rounding that changes what the expansion stores is kept: where  *)
(* 1.0 / remainder is an integer k as a number, the double computed may    *)
(* be k or lie a rounding error under it in magnitude, and then its        *)
(* integer part is one less.  Such a double is the record of k with the    *)
(* mark "under"; its fractional part is 1 "under"; the reciprocal of that  *)
(* is 1 "over", whose fractional part is 0 "over", a rounding error.       *)

\* The default of the template parameter continued_fraction_max_iter.
continued_fraction_max_iter == 25
\* Largest other value of that parameter.
MaxIter == 3
\* Longest span handed to to_fraction directly, and the largest magnitude
\* of its elements.
MaxSpan == 3
MaxCoef == 2

\* std::modf( p, &iptr ) storing the floor of p.
modf_iptr_floor(p, hair) == p.n \div p.d

\* std::modf( p, &iptr ): the value stored in iptr, converted to INT
modf_iptr(p, hair) ==
  IF hair = "under" THEN p.n - copysign(1, p.n) ELSE c_div(p.n, p.d)

\* std::modf( p, &iptr ): the value returned
modf_frac(p, hair) ==
  IF hair = "under" THEN dbl(copysign(1, p.n), 1)
  ELSE dbl(p.n - c_div(p.n, p.d) * p.d, p.d)

\* std::abs( remainder ) < error, with remainder < 10 * error instead.
cf_break_loose(p, hair, error_exp) ==
  IF hair = "under" THEN ~dbl_lt(pow10(error_exp + 1), dbl_abs(p))
  ELSE dbl_lt(dbl_abs(p), pow10(error_exp + 1))

\* std::abs( remainder ) < error
cf_break(p, hair, error_exp) ==
  IF hair = "under" THEN ~dbl_lt(error(error_exp), dbl_abs(p))
  ELSE dbl_lt(dbl_abs(p), error(error_exp))

CfCall(k, mi, e, d, s) ==
  [pc |-> "call", kind |-> k, max_iter |-> mi, error_exp |-> e, num |-> d,
   remainder |-> dbl(0, 1), hair |-> "exact", it |-> 1, result |-> << >>,
   from |-> s, acc |-> f_0, j |-> 0, value |-> f_0]

\* A call of to_fraction_using_continued_fractions< max_iter > ("using"),
\* which expands with the default error_exp whatever its own; the caller's
\* to_fraction( to_continued_fraction< max_iter, INT, error_exp >( num ) )
\* ("expand"); or a call of to_fraction with another span ("span").  The
\* numbers expanded are the small ones and operands of the continued
\* fraction table of the tests; max_iter is small or the default.
CFInit ==
  /\ FracInit
  /\ ord = Off
  /\ sb = Off
  /\ LET nums == Dbls \cup {dbl(1, 3), dbl(48, 7), dbl(-25, 49)}
         max_iters == (1..MaxIter) \cup {continued_fraction_max_iter}
         spans == UNION {[1..n -> -MaxCoef..MaxCoef] : n \in 1..MaxSpan}
     IN  cf \in {CfCall("using", mi, default_error_exp, d, << >>) :
                   mi \in max_iters, d \in nums}
                \cup {CfCall("expand", mi, e, d, << >>) :
                   mi \in max_iters, e \in ErrorExps, d \in nums}
                \cup {CfCall("span", 0, 0, dbl(0, 1), s) : s \in spans}
  /\ rt = Off
  /\ pw = Off


\* std::array< INT, max_iter > result{ 0 }; remainder = num; it =
\* result.begin()
CFEnter ==
  /\ cf.pc = "call"
  /\ cf.kind \in {"using", "expand"}
  /\ cf' = [cf EXCEPT !.pc = "loop", !.remainder = cf.num,
                      !.hair = "exact", !.it = 1,
                      !.result = [i \in 1..cf.max_iter |-> 0]]
  /\ UNCHANGED <<fvars, ord, sb, rt, pw>>

\* An iteration that goes on: remainder = std::modf( remainder, &iptr );
\* *it = (INT)iptr; then ++it, remainder = 1.0 / remainder, with the marks
\* inv_hairs that the quotient may carry.
CFContinue ==
  /\ cf.pc = "loop"
  /\ cf.it <= cf.max_iter
  /\ LET frac == modf_frac(cf.remainder, cf.hair)
         inv_hairs == IF cf.hair = "under" THEN {"over"}
                      ELSE IF dbl_inv(frac).d = 1 THEN {"exact", "under"}
                      ELSE {"exact"}
     IN  /\ ~cf_break(frac, cf.hair, cf.error_exp)
         /\ \E h \in inv_hairs :
              cf' = [cf EXCEPT
                       !.result[cf.it] = modf_iptr(cf.remainder, cf.hair),
                       !.remainder = dbl_inv(frac),
                       !.hair = h,
                       !.it = @ + 1]
  /\ UNCHANGED <<fvars, ord, sb, rt, pw>>

\* An iteration that ends in break: the array is returned.
CFBreak ==
  /\ cf.pc = "loop"
  /\ cf.it <= cf.max_iter
  /\ LET frac == modf_frac(cf.remainder, cf.hair)
     IN  /\ cf_break(frac, cf.hair, cf.error_exp)
         /\ cf' = [cf EXCEPT
                     !.pc = "expanded",
                     !.result[cf.it] = modf_iptr(cf.remainder, cf.hair),
                     !.remainder = frac,
                     !.hair = IF cf.hair = "exact" THEN "exact" ELSE "over"]
  /\ UNCHANGED <<fvars, ord, sb, rt, pw>>

\* it == result.end(): the array is returned.
CFExhaust ==
  /\ cf.pc = "loop"
  /\ cf.it > cf.max_iter
  /\ cf' = [cf EXCEPT !.pc = "expanded"]
  /\ UNCHANGED <<fvars, ord, sb, rt, pw>>

\* to_fraction( from ): std::accumulate starts at std::next( from.rbegin() )
\* with the value f_0.
TFEnter ==
  /\ \/ cf.pc = "expanded" /\ cf' = [cf EXCEPT !.pc = "fold",
                                       !.from = cf.result,
                                       !.acc = f_0,
                                       !.j = Len(cf.result) - 1]
     \/ cf.pc = "call" /\ cf.kind = "span"
                       /\ cf' = [cf EXCEPT !.pc = "fold",
                                   !.acc = f_0,
                                   !.j = Len(cf.from) - 1]
  /\ UNCHANGED <<fvars, ord, sb, rt, pw>>

\* One application of the lambda, to from[ j - 1 ] of the source:
\* ( a.num() == 0 ) ? fraction{ b } : a.inv() + b
TFStep ==
  /\ cf.pc = "fold"
  /\ cf.j >= 1
  /\ cf' = [cf EXCEPT !.acc = IF cf.acc.numerator = 0
                                THEN fraction_INT(cf.from[cf.j])
                                ELSE op_add_INT(inv(cf.acc), cf.from[cf.j]),
                      !.j = @ - 1]
  /\ UNCHANGED <<fvars, ord, sb, rt, pw>>

\* The iterator has reached from.rend(): the accumulator is returned.
TFReturn ==
  /\ cf.pc = "fold"
  /\ cf.j = 0
  /\ cf' = [cf EXCEPT !.pc = "ret", !.value = cf.acc]
  /\ UNCHANGED <<fvars, ord, sb, rt, pw>>

CFNext ==
  \/ CFEnter
  \/ CFContinue
  \/ CFBreak
  \/ CFExhaust
  \/ TFEnter
  \/ TFStep
  \/ TFReturn

SpecCF == CFInit /\ [][CFNext]_vars

-----------------------------------------------------------------------------
(* simplify_rt( rt ) for rt = 2.0 (simplify_sqrt) and rt = 3.0             *)
(* (simplify_cbrt), and simplify_root( i, root ).                          *)

\* Largest magnitude of a numerator, and largest denominator, of a
\* fraction simplified.
MaxRt == 64

\* (INT)std::pow( factor, root ), for the integers root = 2 and root = 3.
RECURSIVE int_pow(_, _)
int_pow(k, r) == IF r = 0 THEN 1 ELSE k * int_pow(k, r - 1)

\* The integer part of the root-th root of the natural number n.
int_root(n, root) ==
  CHOOSE c \in 0..n : int_pow(c, root) <= n /\ int_pow(c + 1, root) > n

\* root_floor is (INT)std::floor( std::pow( n, 1.0 / root ) ) for n =
\* labs( i ).  1.0 / 2.0 is 1/2, and the
\* power is the square root, exact for a square.  1.0 / 3.0 is the double
\* under 1/3, so the power of a cube k^3 is under k by k * ln( k ) * 2^-54:
\* that rounds to k up to k = 3 and to the double under k from k = 4 on,
\* whose floor is k - 1.
\* The loop of simplify_root, entered with factor and remain.
RECURSIVE simplify_root_loop(_, _, _, _)
simplify_root_loop(i, root, factor, remain) ==
  IF factor = 0 THEN [factor |-> factor, remain |-> remain]
  ELSE LET r == fraction(i, int_pow(factor, root))
       IN  IF r.denominator = 1 THEN [factor |-> factor, remain |-> r]
           ELSE simplify_root_loop(i, root, factor - 1, r)

simplify_root(i, root) ==
  LET c == int_root(labs(i), root)
      root_floor == IF root = 3 /\ c >= 4 /\ int_pow(c, root) = labs(i)
                      THEN c - 1 ELSE c
      r == simplify_root_loop(i, root, root_floor, fraction_INT(i))
  IN  [factor |-> IF r.factor = 0 THEN 1 ELSE r.factor, remain |-> r.remain]

\* The pair of simplify_rt's first branch, with the remainders multiplied.
rt_pair_multiplied(np, dp) ==
  <<fraction(np.factor, dp.factor), op_mul(np.remain, dp.remain)>>

\* std::make_pair( fraction{ np_factor, dp_factor }, np_remain / dp_remain )
rt_pair(np, dp) ==
  <<fraction(np.factor, dp.factor), op_div(np.remain, dp.remain)>>

\* A call of simplify_sqrt (root 2) or simplify_cbrt (root 3) on a small
\* value or on an operand of the examples in their comments.
RtInit ==
  /\ FracInit
  /\ ord = Off
  /\ sb = Off
  /\ cf = Off
  /\ LET vals == {fraction(n, d) : <<n, d>> \in
                    ((-MaxRt..MaxRt) \X (0..MaxRt)) \ {<<0, 0>>}}
                    \cup {fraction(392, 10125), fraction(19208, 10125)}
     IN  rt \in {[pc |-> "call", this |-> f, root |-> r,
                  np |-> [factor |-> 0, remain |-> f_0],
                  dp |-> [factor |-> 0, remain |-> f_0],
                  result |-> <<f_0, f_0>>] : f \in vals, r \in {2, 3}}
  /\ pw = Off

\* std::pair result{ f_1, *this }; simplify_root( numerator, rt )
RtNumerator ==
  /\ rt.pc = "call"
  /\ rt' = [rt EXCEPT !.pc = "np",
                      !.result = <<f_1, rt.this>>,
                      !.np = simplify_root(rt.this.numerator, rt.root)]
  /\ UNCHANGED <<fvars, ord, sb, cf, pw>>

\* simplify_root( denominator, rt )
RtDenominator ==
  /\ rt.pc = "np"
  /\ rt' = [rt EXCEPT !.pc = "dp",
                      !.dp = simplify_root(rt.this.denominator, rt.root)]
  /\ UNCHANGED <<fvars, ord, sb, cf, pw>>

\* ( np_factor > 1 ) || ( dp_factor > 1 ): the pair of the factors and
\* the remainders is returned.
RtExtract ==
  /\ rt.pc = "dp"
  /\ (rt.np.factor > 1) \/ (rt.dp.factor > 1)
  /\ rt' = [rt EXCEPT !.pc = "ret", !.result = rt_pair(rt.np, rt.dp)]
  /\ UNCHANGED <<fvars, ord, sb, cf, pw>>

\* Otherwise the pair ( f_1, *this ) is returned.
RtKeep ==
  /\ rt.pc = "dp"
  /\ ~((rt.np.factor > 1) \/ (rt.dp.factor > 1))
  /\ rt' = [rt EXCEPT !.pc = "ret"]
  /\ UNCHANGED <<fvars, ord, sb, cf, pw>>

RtNext ==
  \/ RtNumerator
  \/ RtDenominator
  \/ RtExtract
  \/ RtKeep

SpecRt == RtInit /\ [][RtNext]_vars

-----------------------------------------------------------------------------
(* pow( exp ).  A double that may be infinite or NaN is a record with the  *)
(* class cls: "finite" with the number n/d, "inf" with the sign n, or      *)
(* "nan".                                                                  *)

\* Largest magnitude of a numerator, and largest denominator, of a
\* fraction raised to a power.
MaxPw == 4
\* Largest magnitude of an integer exponent.
MaxExp == 2

xfinite(p) == [cls |-> "finite", n |-> p.n, d |-> p.d]
xinf(s) == [cls |-> "inf", n |-> s, d |-> 0]
xnan == [cls |-> "nan", n |-> 0, d |-> 0]

\* p is an integer
is_int(p) == p.d = 1

\* std::pow( base, e ) for a finite e.  The power of a finite base other
\* than 0 is an integer power, or a square root of a square or its
\* reciprocal.
std_pow(base, e) ==
  IF e.n = 0 THEN xfinite(dbl(1, 1))
  ELSE IF base.cls = "inf"
    THEN IF e.n < 0 THEN xfinite(dbl(0, 1))
         ELSE IF base.n < 0 /\ is_int(e) /\ e.n % 2 = 1 THEN xinf(-1)
         ELSE xinf(1)
  ELSE IF base.n = 0
    THEN IF e.n < 0 THEN xinf(1) ELSE xfinite(dbl(0, 1))
  ELSE IF base.n < 0 /\ ~is_int(e) THEN xnan
  ELSE IF is_int(e)
    THEN IF e.n >= 0
           THEN xfinite(dbl(int_pow(base.n, e.n), int_pow(base.d, e.n)))
           ELSE xfinite(dbl(int_pow(base.d, -e.n), int_pow(base.n, -e.n)))
  ELSE IF e.n > 0
    THEN xfinite(dbl(int_root(base.n, 2), int_root(base.d, 2)))
  ELSE xfinite(dbl(int_root(base.d, 2), int_root(base.n, 2)))

\* The loop of to_fraction_using_stern_brocot_with_mediants as a function
\* of low and high.
RECURSIVE sb_search(_, _, _, _)
sb_search(low, high, from, error_exp) ==
  LET med == mediant(low, high)
  IN  IF sb_above(med, from, error_exp)
        THEN sb_search(low, med, from, error_exp)
      ELSE IF sb_below(med, from, error_exp)
        THEN sb_search(med, high, from, error_exp)
      ELSE med

\* The condition of pow, with exp > 0 in place of exp >= 0.
pow_guard_strict(f, e) ==
  ((e.n < 0) /\ (f.numerator = 0)) \/ ((e.n > 0) /\ (f.denominator = 0))

\* ( exp < 0 && numerator == 0 ) || ( exp >= 0 && denominator == 0 )
pow_guard(f, e) ==
  ((e.n < 0) /\ (f.numerator = 0)) \/ ((e.n >= 0) /\ (f.denominator = 0))

\* A call on a small value with an exponent that is a small integer or
\* the 0.5 of the tests or its negative.  The calls are those whose
\* floating-point power is a number of the model: with exponent 0.5 or
\* -0.5 a positive operand is a square.
PwInit ==
  /\ FracInit
  /\ ord = Off
  /\ sb = Off
  /\ cf = Off
  /\ rt = Off
  /\ LET vals == {fraction(n, d) : <<n, d>> \in
                    ((-MaxPw..MaxPw) \X (0..MaxPw)) \ {<<0, 0>>}}
         exps == {dbl(k, 1) : k \in -MaxExp..MaxExp}
                    \cup {dbl(1, 2), dbl(-1, 2)}
         is_square(n) == int_pow(int_root(n, 2), 2) = n
     IN  pw \in {[pc |-> "call", this |-> f, exp |-> e, invoked |-> FALSE,
                  from |-> xnan, result |-> f_0] :
                   <<f, e>> \in {c \in vals \X exps :
                     \/ is_int(c[2])
                     \/ c[1].denominator = 0
                     \/ c[1].numerator <= 0
                     \/ /\ is_square(to_double(c[1]).n)
                        /\ is_square(to_double(c[1]).d)}}

\* The condition holds: *this is returned.
PwGuarded ==
  /\ pw.pc = "call"
  /\ pow_guard(pw.this, pw.exp)
  /\ pw' = [pw EXCEPT !.pc = "ret", !.result = pw.this]
  /\ UNCHANGED <<fvars, ord, sb, cf, rt>>

\* The condition fails: the approximator is called with std::pow(
\* to_double(), exp ), at the default error_exp.  With a NaN every
\* comparison of its loop is false, so it returns the first mediant, of
\* the unspecified integers that (INT)std::ceil( NaN ) and
\* (INT)std::floor( NaN ) are; with an infinity its loop does not end.
PwApproximate ==
  /\ pw.pc = "call"
  /\ ~pow_guard(pw.this, pw.exp)
  /\ LET base == IF pw.this.denominator = 0 THEN xinf(pw.this.numerator)
                 ELSE xfinite(to_double(pw.this))
         from == std_pow(base, pw.exp)
     IN  \/ /\ from.cls = "finite"
            /\ pw' = [pw EXCEPT !.pc = "ret", !.invoked = TRUE,
                        !.from = from,
                        !.result = sb_search(fraction_INT(floor_INT(from)),
                                             fraction_INT(ceil_INT(from)),
                                             from, default_error_exp)]
         \/ /\ from.cls = "nan"
            /\ \E i \in Ints, j \in Ints :
                 pw' = [pw EXCEPT !.pc = "ret", !.invoked = TRUE,
                          !.from = from,
                          !.result = mediant(fraction_INT(i),
                                             fraction_INT(j))]
         \/ /\ from.cls = "inf"
            /\ pw' = [pw EXCEPT !.pc = "diverged", !.invoked = TRUE,
                        !.from = from]
  /\ UNCHANGED <<fvars, ord, sb, cf, rt>>

PwNext ==
  \/ PwGuarded
  \/ PwApproximate

SpecPw == PwInit /\ [][PwNext]_vars

-----------------------------------------------------------------------------
(* pow_c( exp ), called on the operand of a call of pow( exp ) once that   *)
(* has returned, as the tests call the two.  The operands of these calls   *)
(* are zero, the positive values and the two infinities: the complex power *)
(* of a negative finite double has the rounding errors of a sine and a     *)
(* cosine in its parts, which the numbers of the model do not hold.        *)

\* std::pow( std::complex< double >{ base, 0.0 }, e ): the real and the
\* imaginary part, for a base that is not negative and finite.  The power
\* of a positive finite base is the real power with the imaginary part 0;
\* that of 0 is 0 for a positive e and has NaN parts for e = 0; that of an
\* infinity for a negative e is 0.
complex_pow(base, e) ==
  IF base.cls = "finite" /\ base.n > 0
    THEN <<std_pow(base, e), xfinite(dbl(0, 1))>>
  ELSE IF base.cls = "finite"
    THEN IF e.n > 0 THEN <<xfinite(dbl(0, 1)), xfinite(dbl(0, 1))>>
         ELSE IF e.n = 0 THEN <<xnan, xnan>>
         ELSE <<xinf(1), xnan>>
  ELSE IF e.n < 0 THEN <<xfinite(dbl(0, 1)), xfinite(dbl(0, 1))>>
  ELSE IF e.n = 0 /\ base.n > 0 THEN <<xfinite(dbl(1, 1)), xfinite(dbl(0, 1))>>
  ELSE IF e.n = 0 THEN <<xnan, xnan>>
  ELSE <<xinf(1), xinf(1)>>

\* The condition holds: result = std::make_pair( f_inf, f_0 )
PwCGuarded ==
  /\ pw.pc = "ret"
  /\ pow_guard(pw.this, pw.exp)
  /\ pw' = [pc |-> "c_ret", this |-> pw.this, exp |-> pw.exp,
            invoked |-> pw.invoked, from |-> pw.from, result |-> pw.result,
            c_invoked |-> FALSE, result_c |-> <<f_inf, f_0>>]
  /\ UNCHANGED <<fvars, ord, sb, cf, rt>>

\* The condition fails: the approximator is called with pow_d.real() and
\* with pow_d.imag(); with a NaN it returns the mediant of unspecified
\* integers, as in pow.
PwCApproximate ==
  /\ pw.pc = "ret"
  /\ ~pow_guard(pw.this, pw.exp)
  /\ pw.this.numerator >= 0 \/ pw.this.denominator = 0
  /\ LET base == IF pw.this.denominator = 0 THEN xinf(pw.this.numerator)
                 ELSE xfinite(to_double(pw.this))
         pow_d == complex_pow(base, pw.exp)
         approximations(part) ==
           IF part.cls = "finite"
             THEN {sb_search(fraction_INT(floor_INT(part)),
                             fraction_INT(ceil_INT(part)),
                             part, default_error_exp)}
           ELSE IF part.cls = "nan"
             THEN {mediant(fraction_INT(i), fraction_INT(j)) :
                     i \in Ints, j \in Ints}
           ELSE {}
     IN  \E re \in approximations(pow_d[1]), im \in approximations(pow_d[2]) :
           pw' = [pc |-> "c_ret", this |-> pw.this, exp |-> pw.exp,
                  invoked |-> pw.invoked, from |-> pw.from,
                  result |-> pw.result,
                  c_invoked |-> TRUE, result_c |-> <<re, im>>]
  /\ UNCHANGED <<fvars, ord, sb, cf, rt>>

PwCNext ==
  \/ PwGuarded
  \/ PwApproximate
  \/ PwCGuarded
  \/ PwCApproximate

SpecPwC == PwInit /\ [][PwCNext]_vars

-----------------------------------------------------------------------------
(* Vocabulary of the properties.                                           *)

\* m >= 0 and n > 0 have no common divisor above 1.
Coprime(m, n) == \A k \in 2..n : ~((m % k = 0) /\ (n % k = 0))

\* The canonical forms: lowest terms over a positive denominator, or one of
\* the two infinities 1/0 and -1/0.
Canonical(f) ==
  /\ f.denominator >= 0
  /\ (f.denominator > 0) => Coprime(labs(f.numerator), f.denominator)
  /\ (f.denominator = 0) => (f.numerator \in {1, -1})

Finite(f) == f.denominator > 0

\* f is the canonical form of the quotient n/d, for d other than 0.
IsQuotient(f, n, d) ==
  /\ Canonical(f)
  /\ Finite(f)
  /\ f.numerator * d = n * f.denominator

-----------------------------------------------------------------------------
\* C1: constructing fraction( n, d ) with d other than 0 stores a positive
\* denominator and a numerator coprime to it, the stored pair has the value
\* n/d with the sign carried by the numerator, and zero is stored as 0/1.
C1_ConstructCanonical ==
  (op = "fraction" /\ args[2] # 0) =>
    LET n == args[1]
        d == args[2]
    IN  /\ y.denominator > 0
        /\ Coprime(labs(y.numerator), y.denominator)
        /\ y.numerator * d = n * y.denominator
        /\ (y.numerator < 0) <=> ((n < 0 /\ d > 0) \/ (n > 0 /\ d < 0))
        /\ (n = 0) => (y = Frac(0, 1))
        /\ ret = y

\* A reducible pair with both signs negative has been constructed.
C1_Witness ==
  /\ op = "fraction"
  /\ args = <<-6, -8>>
  /\ y = Frac(3, 4)

\* C2: while set( 0, 0 ) has never been executed, every value held is
\* canonical: denominator >= 0, lowest terms when the denominator is
\* positive, numerator 1 or -1 when the denominator is 0.
C2_ValuesCanonical ==
  (~ub) => (Canonical(x) /\ Canonical(y) /\ Canonical(ret))

\* A division by zero has produced the negative infinity.
C2_Witness ==
  /\ ~ub
  /\ op = "x/y"
  /\ b = Frac(0, 1)
  /\ a.numerator < -1
  /\ x = Frac(-1, 0)

\* The exact operations C3 names.
C3Ops ==
  {"x+y", "x-y", "x*y", "x/y", "x+i", "x-i", "x*i", "x/i", "i+x", "i-x",
   "i*x", "i/x", "inv", "neg", "abs", "mediant", "++x", "x++", "--x", "x--"}

\* C3: while set( 0, 0 ) has never been executed, no exact operation hands
\* the pair ( 0, 0 ) to set().
C3_NeverZeroZero ==
  [][((~ub) /\ op' \in C3Ops) => ~HasZeroZero(calls')]_vars

\* C4: fractions constructed from pairs with equal cross products (nonzero
\* denominators) are field-equal, and constructing again from a value's own
\* numerator and denominator returns the same value.
C4_EqualFractionsFieldEqual ==
  /\ (op = "fraction" /\ args[2] # 0) =>
       \A n2 \in Args, d2 \in Args \ {0} :
         (args[1] * d2 = n2 * args[2]) => op_eq(fraction(n2, d2), y)
  /\ \A f \in {x, y} :
       Canonical(f) => op_eq(fraction(f.numerator, f.denominator), f)
  /\ op_eq(fraction(2, 4), fraction(1, 2))
  /\ op_eq(fraction(-1, -2), fraction(1, 2))
  /\ op_eq(fraction(1, -2), fraction(-1, 2))
  /\ op_eq(fraction(4, -10), fraction(-2, 5))

\* A pair that is a negative multiple of ( -1, 2 ) has been constructed.
C4_Witness ==
  /\ op = "fraction"
  /\ args = <<4, -8>>
  /\ y = Frac(-1, 2)

\* C5: for a canonical value that is neither zero nor infinite, the
\* reciprocal of the reciprocal is the value.
C5_InvInvolution ==
  (op = "inv" /\ Canonical(a) /\ Finite(a) /\ a.numerator # 0) =>
    /\ ret = x
    /\ op_eq(inv(x), a)

\* The reciprocal of a negative non-integer has been taken.
C5_Witness ==
  /\ op = "inv"
  /\ a = Frac(-2, 3)
  /\ x = Frac(-3, 2)

\* C6: for finite canonical operands, operator+ returns the canonical form of
\* (a*d + b*c)/(b*d); the integer overload returns the canonical form of
\* (a + b*n)/b, which is also a/b + fraction( n ).
C6_AddExact ==
  /\ (op = "x+y" /\ Canonical(a) /\ Finite(a) /\ Canonical(b) /\ Finite(b)) =>
       /\ IsQuotient(x, a.numerator * b.denominator
                          + a.denominator * b.numerator,
                     a.denominator * b.denominator)
       /\ ret = x
  /\ (op = "x+i" /\ Canonical(a) /\ Finite(a)) =>
       /\ IsQuotient(x, a.numerator + a.denominator * args[1], a.denominator)
       /\ op_eq(x, op_add(a, fraction_INT(args[1])))
       /\ ret = x
  /\ op_eq(op_add(Frac(1, 4), Frac(1, 2)), Frac(3, 4))

\* 1/4 + 1/2 has been computed.
C6_Witness ==
  /\ op = "x+y"
  /\ a = Frac(1, 4)
  /\ b = Frac(1, 2)
  /\ x = Frac(3, 4)

\* b with only its numerator negated.
Negated(f) == Frac(-f.numerator, f.denominator)

\* C7: a - b is a + (-b), where -b is b with only its numerator negated, for
\* a fraction or an integer on the right and for an integer on the left: the
\* same pair is handed to set(), and the same value results.  On finite
\* operands that is the exact difference; an infinite operand on the right
\* gives the opposite infinity, and 4 - (1/0) is -1/0.
C7_SubIsAddNeg ==
  /\ (op = "x-y" /\ Canonical(a) /\ Canonical(b)) =>
       /\ calls = <<<<-b.numerator, b.denominator>>, add_args(a, Negated(b))>>
       /\ (~HasZeroZero(calls)) =>
            (op_eq(x, op_add(a, Negated(b))) /\ ret = x)
       /\ (Finite(a) /\ Finite(b)) =>
            IsQuotient(x, a.numerator * b.denominator
                            - a.denominator * b.numerator,
                       a.denominator * b.denominator)
       /\ (Finite(a) /\ ~Finite(b)) => (x = Negated(b))
  /\ (op = "x-i" /\ Canonical(a)) =>
       /\ op_eq(x, op_add_INT(a, -args[1]))
       /\ Finite(a) =>
            IsQuotient(x, a.numerator - a.denominator * args[1],
                       a.denominator)
       /\ ret = x
  /\ (op = "i-x" /\ Canonical(a)) =>
       /\ op_eq(x, op_add_INT(Negated(a), args[1]))
       /\ Finite(a) =>
            IsQuotient(x, a.denominator * args[1] - a.numerator,
                       a.denominator)
       /\ (~Finite(a)) => (x = Negated(a))
       /\ ret = x
  /\ op_eq(INT_op_sub(4, Frac(1, 0)), Frac(-1, 0))

\* A negative fraction has been subtracted from a positive one.
C7_Witness ==
  /\ op = "x-y"
  /\ a = Frac(1, 2)
  /\ b = Frac(-1, 4)
  /\ x = Frac(3, 4)

\* The quotient n/d truncated toward zero, for d other than 0.
Trunc(n, d) ==
  CHOOSE q \in -labs(n)..labs(n) :
    /\ labs(q) * labs(d) <= labs(n)
    /\ labs(n) < (labs(q) + 1) * labs(d)
    /\ (q > 0) => ((n > 0) = (d > 0))
    /\ (q < 0) => ((n > 0) # (d > 0))

Sign(i) == IF i < 0 THEN -1 ELSE IF i > 0 THEN 1 ELSE 0

\* C8: on finite operands the product is the canonical form of (a*c)/(b*d)
\* and the quotient that of (a*d)/(b*c); a finite nonzero value divided by
\* Zero is the infinity of its sign, divided by either infinity it is 0/1;
\* inv( Zero ) is 1/0 and inv of either infinity is 0/1; none of these hands
\* ( 0, 0 ) to set().
C8_MulDivMechanical ==
  /\ (op = "x*y" /\ Canonical(a) /\ Finite(a) /\ Canonical(b) /\ Finite(b)) =>
       /\ IsQuotient(x, a.numerator * b.numerator,
                     a.denominator * b.denominator)
       /\ ret = x
  /\ (op = "x/y" /\ Canonical(a) /\ Finite(a) /\ Canonical(b)) =>
       /\ (Finite(b) /\ b.numerator # 0) =>
            IsQuotient(x, a.numerator * b.denominator,
                       a.denominator * b.numerator)
       /\ (a.numerator # 0 /\ b = Frac(0, 1)) =>
            (x = Frac(Sign(a.numerator), 0))
       /\ (a.numerator # 0 /\ ~Finite(b)) => (x = Frac(0, 1))
       /\ (a.numerator # 0) => (~HasZeroZero(calls) /\ ~ub /\ ret = x)
  /\ (op = "inv" /\ Canonical(a)) =>
       /\ (a = Frac(0, 1)) => (x = Frac(1, 0))
       /\ (~Finite(a)) => (x = Frac(0, 1))
       /\ ~HasZeroZero(calls) /\ ~ub

\* A negative value has been divided by the negative infinity.
C8_Witness ==
  /\ op = "x/y"
  /\ a = Frac(-3, 2)
  /\ b = Frac(-1, 0)
  /\ x = Frac(0, 1)

\* value % divisor as C9 states it: 1/0 under the guard, and otherwise the
\* canonical form of value - trunc( value/divisor ) * divisor.
IsRemainder(f, vn, vd, dn, dd) ==
  IF dn = 0 \/ dd = 0 \/ vd = 0
    THEN f = Frac(1, 0)
    ELSE IsQuotient(f, vn * dd - Trunc(vn * dd, vd * dn) * dn * vd, vd * dd)

\* C9: value % divisor is 1/0 when the divisor's numerator or denominator is
\* 0 or the value's denominator is 0; otherwise it is value minus the
\* divisor times the quotient truncated toward zero; integer % fraction is
\* fraction( integer, 1 ) % fraction.
C9_ModRational ==
  /\ (op = "x%y" /\ Canonical(a) /\ Canonical(b)) =>
       /\ IsRemainder(x, a.numerator, a.denominator,
                      b.numerator, b.denominator)
       /\ ret = x
  /\ (op = "i%x" /\ Canonical(a)) =>
       /\ IsRemainder(x, args[1], 1, a.numerator, a.denominator)
       /\ op_eq(x, op_mod(fraction(args[1], 1), a))
       /\ ret = x
  /\ op_eq(op_mod(Frac(3, 2), Frac(1, 1)), Frac(1, 2))
  /\ op_eq(INT_op_mod(5, Frac(-25, 49)), Frac(20, 49))
  /\ op_eq(op_mod(Frac(-1, 0), Frac(3, 2)), Frac(1, 0))

\* A negative value has been reduced modulo a positive divisor, with a
\* quotient that truncation and rounding down tell apart.
C9_Witness ==
  /\ op = "x%y"
  /\ a = Frac(-3, 2)
  /\ b = Frac(1, 1)
  /\ x = Frac(-1, 2)

\* C10: ++ and -- store the canonical form of (numerator +- denominator) over
\* the denominator, which is f + 1 and f - 1 by the general add formula (an
\* infinity is left unchanged); decrementing the incremented value restores
\* the original, and the postfix forms return the value held before.
C10_IncDec ==
  /\ (op \in {"++x", "x++"} /\ Canonical(a)) =>
       /\ Finite(a) =>
            IsQuotient(x, a.numerator + a.denominator, a.denominator)
       /\ (~Finite(a)) => (x = a)
       /\ op_eq(x, op_add(a, Frac(1, 1)))
       /\ op_eq(op_dec(x), a)
       /\ ret = IF op = "x++" THEN a ELSE x
  /\ (op \in {"--x", "x--"} /\ Canonical(a)) =>
       /\ Finite(a) =>
            IsQuotient(x, a.numerator - a.denominator, a.denominator)
       /\ (~Finite(a)) => (x = a)
       /\ op_eq(x, op_add(a, Frac(-1, 1)))
       /\ op_eq(op_inc(x), a)
       /\ ret = IF op = "x--" THEN a ELSE x

\* A negative non-integer has been incremented by the postfix form.
C10_Witness ==
  /\ op = "x++"
  /\ a = Frac(-1, 2)
  /\ x = Frac(1, 2)
  /\ ret = Frac(-1, 2)

-----------------------------------------------------------------------------
\* The number f stands for is below the number g stands for, both finite:
\* over the common denominator the numerators compare so.
ValueLess(f, g) ==
  LET m == f.denominator * g.denominator
  IN  f.numerator * (m \div f.denominator)
        < g.numerator * (m \div g.denominator)

\* C11: operator<=> and operator== order all canonical values, the two
\* infinities included, totally: of u < v, u == v and u > v exactly one
\* holds, <=> reports equal exactly when u == v, and < is transitive.
C11_TotalOrder ==
  (ord.pc = "done") =>
    /\ (ord.lt /\ ~ord.eq /\ ~ord.gt)
         \/ (~ord.lt /\ ord.eq /\ ~ord.gt)
         \/ (~ord.lt /\ ~ord.eq /\ ord.gt)
    /\ (ord.cmp = "equal") <=> ord.eq
    /\ (ord.lt /\ ord.lt_vw) => ord.lt_uw

\* C12: for finite canonical u and v, u < v exactly when the number u is
\* below the number v, and <=, >, >= likewise, whatever the signs.
C12_FiniteOrderIsNumeric ==
  (ord.pc = "done" /\ Finite(ord.u) /\ Finite(ord.v)) =>
    /\ ord.lt <=> ValueLess(ord.u, ord.v)
    /\ ord.gt <=> ValueLess(ord.v, ord.u)
    /\ ord.le <=> ~ValueLess(ord.v, ord.u)
    /\ ord.ge <=> ~ValueLess(ord.u, ord.v)

\* -2/3 < -1/2 has been evaluated: two negatives whose numerators and
\* denominators both differ.
C12_Witness ==
  /\ ord.pc = "done"
  /\ ord.u = Frac(-2, 3)
  /\ ord.v = Frac(-1, 2)
  /\ ord.lt
  /\ ~ord.ge

-----------------------------------------------------------------------------
\* 10 to the k, k >= 0.
RECURSIVE TenTo(_)
TenTo(k) == IF k = 0 THEN 1 ELSE 10 * TenTo(k - 1)

\* The distance between the number the finite f stands for and the number
\* p is at most 10 to the e, e <= 0: f is neither under p - 10^e nor over
\* p + 10^e.
WithinTolerance(f, p, e) ==
  LET v == dbl(f.numerator, f.denominator)
      t == dbl(1, TenTo(-e))
  IN  /\ ~dbl_lt(v, dbl_sub(p, t))
      /\ ~dbl_lt(dbl_add(p, t), v)

\* C13: the fraction returned by the Stern-Brocot approximator for a finite
\* argument is finite and at most the tolerance 10^error_exp away from the
\* argument, and so is the object constructed from a double.
C13_SternBrocotWithinTolerance ==
  /\ (sb.pc \in {"ret", "constructed"}) =>
       /\ Finite(sb.result)
       /\ WithinTolerance(sb.result, sb.from, sb.error_exp)
  /\ (sb.pc = "constructed") =>
       /\ Finite(sb.this)
       /\ WithinTolerance(sb.this, sb.from, sb.error_exp)

\* The approximator has returned 1/6 for 1/12 under the tolerance 1/10: a
\* result that is not the argument, found after some descent.
C13_Witness ==
  /\ sb.pc = "constructed"
  /\ sb.from = [n |-> 1, d |-> 12]
  /\ sb.error_exp = -1
  /\ sb.this = Frac(1, 6)
  /\ sb.low = Frac(0, 1)
  /\ sb.high = Frac(1, 5)

-----------------------------------------------------------------------------
RECURSIVE EvalFrom(_, _)
EvalFrom(s, i) ==
  IF i = Len(s) THEN <<s[i], 1>>
  ELSE LET t == EvalFrom(s, i + 1)
       IN  IF t[1] = 0 THEN <<s[i], 1>>
           ELSE <<s[i] * t[1] + t[2], t[1]>>

\* C17: to_fraction starts its fold with the last coefficient of the
\* sequence as the accumulator, and returns the value
\* c0 + 1/(c1 + 1/(... + 1/c[n-1])) of all the coefficients, a zero
\* accumulator being replaced by the next coefficient; a one-element
\* sequence evaluates to its element.
C17_EvaluatesEveryCoefficient ==
  /\ (cf.pc = "fold" /\ cf.j = Len(cf.from) - 1) =>
       cf.acc = Frac(cf.from[Len(cf.from)], 1)
  /\ (cf.pc = "ret") =>
       LET t == EvalFrom(cf.from, 1)
       IN  /\ Canonical(cf.value)
           /\ IsQuotient(cf.value, t[1], t[2])

-----------------------------------------------------------------------------
\* k to the r.
RECURSIVE Power(_, _)
Power(k, r) == IF r = 0 THEN 1 ELSE k * Power(k, r - 1)

\* k to the r, or some number above cap where k to the r is above cap.
RECURSIVE CappedPower(_, _, _)
CappedPower(k, r, cap) ==
  IF r = 0 THEN 1
  ELSE LET p == CappedPower(k, r - 1, cap)
       IN  IF p > cap THEN p ELSE p * k

\* k to the r divides v exactly, v other than 0.
PowerDivides(k, r, v) ==
  LET p == CappedPower(k, r, labs(v))
  IN  p <= labs(v) /\ v % p = 0

\* v has an extractable factor above 1: the r-th power of some k > 1
\* divides it.
Extractable(v, r) == v # 0 /\ \E k \in 2..labs(v) : PowerDivides(k, r, v)

\* The r-th power of F, times R, is f: the products of the numerators and
\* of the denominators form a pair whose canonical form is f.
PowerProductIs(F, R, r, f) ==
  LET pn == Power(F.numerator, r) * R.numerator
      pd == Power(F.denominator, r) * R.denominator
  IN  /\ <<pn, pd>> # <<0, 0>>
      /\ pn * f.denominator = f.numerator * pd
      /\ (pd = 0) <=> (f.denominator = 0)
      /\ (pd = 0) => (Sign(pn) = Sign(f.numerator))

RootSplit(v, r, res) ==
  IF v = 0 THEN res.factor = 1 /\ res.remain = Frac(0, 1)
  ELSE /\ res.factor >= 1
       /\ PowerDivides(res.factor, r, v)
       /\ \A k \in (res.factor + 1)..labs(v) : ~PowerDivides(k, r, v)
       /\ res.remain.denominator = 1
       /\ res.remain.numerator * Power(res.factor, r) = v
       /\ \A k \in 2..labs(res.remain.numerator) :
            ~PowerDivides(k, r, res.remain.numerator)
       /\ Sign(res.remain.numerator) = Sign(v)

\* C20: simplify_root( v, r ) returns as factor the largest integer, at
\* least 1, whose r-th power divides v (1 for v = 0), and as remainder the
\* integer v / factor^r, which no r-th power of a k > 1 divides and which
\* carries the sign of v.
C20_SimplifyRootLargestFactor ==
  /\ (rt.pc \in {"np", "dp", "ret"}) =>
       RootSplit(rt.this.numerator, rt.root, rt.np)
  /\ (rt.pc \in {"dp", "ret"}) =>
       RootSplit(rt.this.denominator, rt.root, rt.dp)

-----------------------------------------------------------------------------
\* The operand and exponent of the call are zero to a negative power, or
\* an infinity to a power that is not negative.
ZeroToNegative == pw.this.numerator = 0 /\ pw.exp.n < 0
InfiniteToNonNegative == pw.this.denominator = 0 /\ pw.exp.n >= 0

\* The double p is the k-th power of the finite f other than 0, k an
\* integer.
IsIntegerPower(p, f, k) ==
  /\ p.cls = "finite"
  /\ IF k >= 0
       THEN p.n * Power(f.denominator, k) = Power(f.numerator, k) * p.d
       ELSE p.n * Power(f.numerator, -k) = Power(f.denominator, -k) * p.d

\* C19: pow( exp ) returns its operand unchanged, the approximator not
\* called, exactly for zero to a negative power and for an infinity to a
\* power that is not negative; in every other case the approximator is
\* called with the floating-point power, never an infinity, and a NaN only
\* for a negative operand under a fractional exponent, and what pow returns
\* for a finite power is within the tolerance of it.
C19_PowGuard ==
  (pw.pc # "call") =>
    /\ (ZeroToNegative \/ InfiniteToNonNegative) <=> ~pw.invoked
    /\ ~pw.invoked => (pw.pc = "ret" /\ pw.result = pw.this)
    /\ pw.invoked =>
         /\ pw.pc = "ret"
         /\ pw.from.cls # "inf"
         /\ (pw.from.cls = "nan") =>
              (pw.this.numerator < 0 /\ pw.exp.d # 1)
         /\ (pw.exp.d = 1 /\ pw.this.numerator # 0
               /\ pw.this.denominator # 0) =>
              IsIntegerPower(pw.from, pw.this, pw.exp.n)
         /\ (pw.from.cls = "finite") =>
              /\ Finite(pw.result)
              /\ WithinTolerance(pw.result, pw.from, -6)

\* pow( 0 ) of the infinity 1/0 has returned 1/0 without a call of the
\* approximator; the floating-point power would have been 1.
C19_Witness ==
  /\ pw.pc = "ret"
  /\ pw.this = Frac(1, 0)
  /\ pw.exp = [n |-> 0, d |-> 1]
  /\ ~pw.invoked
  /\ pw.result = Frac(1, 0)

-----------------------------------------------------------------------------
\* C14: for 3.141592654 under the default tolerance 10^-6 the approximator
\* starts from low = 3/1 and high = 4/1, no mediant it passes over is
\* within the tolerance, and it returns 355/113.
C14_PiIs355Over113 ==
  (sb.pc # "off" /\ sb.from = [n |-> 1570796327, d |-> 500000000]
     /\ sb.error_exp = -6) =>
    /\ (sb.pc = "loop" /\ sb.med = Frac(0, 1)) =>
         (sb.low = Frac(3, 1) /\ sb.high = Frac(4, 1))
    /\ (sb.pc = "loop") => ~WithinTolerance(sb.med, sb.from, -6)
    /\ (sb.pc \in {"ret", "constructed"}) => sb.result = Frac(355, 113)
    /\ (sb.pc = "constructed") => sb.this = Frac(355, 113)

\* Fraction{ 3.141592654 } has been constructed as 355/113, the mediant of
\* 333/106 and 22/7.
C14_Witness ==
  /\ sb.pc = "constructed"
  /\ sb.from = [n |-> 1570796327, d |-> 500000000]
  /\ sb.error_exp = -6
  /\ sb.low = Frac(333, 106)
  /\ sb.high = Frac(22, 7)
  /\ sb.this = Frac(355, 113)

\* C15: for every finite argument and tolerance the loop of the
\* approximator stops: the call returns.
C15_SternBrocotTerminates == <>(sb.pc \in {"ret", "constructed"})

\* The call for 7/12 under the tolerance 1/100 has returned, after a
\* descent that moved both low and high.
C15_Witness ==
  /\ sb.pc = "ret"
  /\ sb.from = [n |-> 7, d |-> 12]
  /\ sb.error_exp = -2
  /\ sb.low = Frac(4, 7)
  /\ sb.high = Frac(3, 5)
  /\ sb.result = Frac(7, 12)

-----------------------------------------------------------------------------
\* The number the finite f stands for is below the number p, and above it.
Under(f, p) == dbl_lt(dbl(f.numerator, f.denominator), p)
Over(f, p) == dbl_lt(p, dbl(f.numerator, f.denominator))

\* The fraction of the summed numerators over the summed denominators.
MediantOf(l, h) ==
  Frac(l.numerator + h.numerator, l.denominator + h.denominator)

\* The bounds of the search bracket the argument, and their mediant lies
\* strictly between them when they differ.
Bracketed ==
  (sb.pc = "loop") =>
    /\ Finite(sb.low) /\ Finite(sb.high)
    /\ ~Over(sb.low, sb.from)
    /\ ~Under(sb.high, sb.from)
    /\ (sb.low # sb.high) =>
         /\ ValueLess(sb.low, MediantOf(sb.low, sb.high))
         /\ ValueLess(MediantOf(sb.low, sb.high), sb.high)

\* The search starts from the floor and the ceiling of the argument.
StartsAtFloorAndCeil ==
  (sb.pc = "call" /\ sb'.pc = "loop") =>
    /\ sb'.low.denominator = 1 /\ sb'.high.denominator = 1
    /\ ~Over(sb'.low, sb.from)
    /\ Over(Frac(sb'.low.numerator + 1, 1), sb.from)
    /\ ~Under(sb'.high, sb.from)
    /\ Under(Frac(sb'.high.numerator - 1, 1), sb.from)

\* A bound is replaced only by the mediant of the two, high by one above
\* the argument plus the tolerance and low by one below the argument minus
\* the tolerance, the other bound staying.
ReplacedByMediant ==
  (sb.pc = "loop" /\ sb'.pc = "loop") =>
    /\ (sb'.high # sb.high) =>
         /\ sb'.high = MediantOf(sb.low, sb.high)
         /\ Over(sb'.high, dbl_add(sb.from, dbl(1, TenTo(-sb.error_exp))))
         /\ sb'.low = sb.low
    /\ (sb'.low # sb.low) =>
         /\ sb'.low = MediantOf(sb.low, sb.high)
         /\ Under(sb'.low, dbl_sub(sb.from, dbl(1, TenTo(-sb.error_exp))))
         /\ sb'.high = sb.high

\* C21: the search starts with low = floor( x ) and high = ceil( x ); at
\* every iteration low <= x <= high and, when low and high differ, their
\* mediant lies strictly between them; high is only replaced by a mediant
\* above x + tolerance and low by a mediant below x - tolerance.
C21_SternBrocotLoopInvariant ==
  /\ []Bracketed
  /\ [][StartsAtFloorAndCeil /\ ReplacedByMediant]_vars

\* The search for 7/12 under the tolerance 1/100 has replaced both bounds:
\* it is at low = 4/7 and high = 3/5 after the mediants 1/2, 2/3, 3/5, 4/7.
C21_Witness ==
  /\ sb.pc = "loop"
  /\ sb.from = [n |-> 7, d |-> 12]
  /\ sb.error_exp = -2
  /\ sb.low = Frac(4, 7)
  /\ sb.high = Frac(3, 5)
  /\ sb.med = Frac(4, 7)

-----------------------------------------------------------------------------
\* The number p is an integer; the largest integer not above p.
IsWhole(p) == p.n % p.d = 0
Floor(p) == p.n \div p.d

\* p is above the integer under it by less than 1 / ( T - 1 ) - 1 / T, for
\* T = 10^-e: the integer is within the tolerance 1 / T of p, and the
\* number 1 / ( T - 1 ) above the integer is not.
JustAboveWhole(p, e) ==
  /\ ~IsWhole(p)
  /\ dbl_lt(dbl_add(dbl(p.n - Floor(p) * p.d, p.d), dbl(1, TenTo(-e))),
            dbl(1, TenTo(-e) - 1))

\* C22: for a finite argument x that is no integer the result of the
\* approximator is no integer: it lies strictly between floor( x ) and
\* ceil( x ), even when an integer is within the tolerance of x, and for x
\* just above an integer n under the tolerance 1 / T it is
\* ( n * T + 1 ) / T; for an integer x the result is x, the first mediant,
\* with low and high still x.
C22_NeverIntegerForNonInteger ==
  (sb.pc \in {"ret", "constructed"}) =>
    /\ ~IsWhole(sb.from) =>
         /\ Finite(sb.result)
         /\ sb.result.numerator % sb.result.denominator # 0
         /\ Over(sb.result, dbl(Floor(sb.from), 1))
         /\ Under(sb.result, dbl(Floor(sb.from) + 1, 1))
    /\ JustAboveWhole(sb.from, sb.error_exp) =>
         sb.result = Frac(Floor(sb.from) * TenTo(-sb.error_exp) + 1,
                          TenTo(-sb.error_exp))
    /\ IsWhole(sb.from) =>
         /\ sb.result = Frac(sb.from.n, 1)
         /\ sb.low = Frac(sb.from.n, 1)
         /\ sb.high = Frac(sb.from.n, 1)

\* The approximator has returned 901/100 for an argument 10^-7 above 9
\* under the tolerance 1/100, of which 9 itself is within.
C22_Witness ==
  /\ sb.pc = "ret"
  /\ sb.from = [n |-> 90000001, d |-> 10000000]
  /\ sb.error_exp = -2
  /\ sb.low = Frac(9, 1)
  /\ sb.result = Frac(901, 100)

-----------------------------------------------------------------------------
\* In the search for a non-integer, high.num * low.den - low.num * high.den
\* is 1 and both denominators are positive.
Unimodular ==
  (sb.pc = "loop" /\ ~IsWhole(sb.from)) =>
    /\ sb.low.denominator > 0
    /\ sb.high.denominator > 0
    /\ sb.high.numerator * sb.low.denominator
         - sb.low.numerator * sb.high.denominator = 1

\* An iteration for a non-integer stores the summed numerator over the
\* summed denominator as they are, in lowest terms, with a denominator
\* above that of the mediant before.
MediantUnreduced ==
  (sb.pc = "loop" /\ sb'.pc \in {"loop", "ret"} /\ ~IsWhole(sb.from)) =>
    /\ sb'.med = Frac(sb.low.numerator + sb.high.numerator,
                      sb.low.denominator + sb.high.denominator)
    /\ Coprime(labs(sb'.med.numerator), sb'.med.denominator)
    /\ sb'.med.denominator > sb.med.denominator

\* C24: in the search for a non-integer x every iteration keeps
\* high.num * low.den - low.num * high.den = 1 with positive denominators,
\* so each mediant is the summed numerator over the summed denominator,
\* unchanged by the canonicalization, and the denominators of successive
\* mediants strictly increase.
C24_MediantsInLowestTerms ==
  /\ []Unimodular
  /\ [][MediantUnreduced]_vars

\* The search for -5/12 under the tolerance 1/100 is at low = -3/7 and
\* high = -2/5, between two negative fractions, with the mediant -3/7.
C24_Witness ==
  /\ sb.pc = "loop"
  /\ sb.from = [n |-> -5, d |-> 12]
  /\ sb.error_exp = -2
  /\ sb.low = Frac(-3, 7)
  /\ sb.high = Frac(-2, 5)
  /\ sb.med = Frac(-3, 7)

-----------------------------------------------------------------------------
\* The integer part of the double p with the mark hair, toward zero: that
\* of the number p, and one less in magnitude for a double a rounding
\* error under the integer p in magnitude.
IntegerPart(p, hair) ==
  LET t == Sign(p.n) * (labs(p.n) \div p.d)
  IN  IF hair = "under" THEN t - Sign(p.n) ELSE t

\* The magnitude of the fractional part of the double p with the mark hair
\* is below 10 to the e: a double a rounding error over an integer always,
\* one a rounding error under an integer never.
FractionBelow(p, hair, e) ==
  LET r == labs(p.n) % p.d
  IN  \/ hair = "over" /\ r = 0
      \/ hair = "exact" /\ r * TenTo(-e) < p.d

\* An iteration stores the integer part of its remainder in its slot and
\* nothing else, and it is the last one exactly when the fractional part
\* of that remainder is below the tolerance in magnitude.
StoresIntegerPart ==
  (cf.pc = "loop" /\ cf.it <= cf.max_iter) =>
    /\ cf'.result =
         [k \in 1..cf.max_iter |->
            IF k = cf.it THEN IntegerPart(cf.remainder, cf.hair)
            ELSE cf.result[k]]
    /\ IF FractionBelow(cf.remainder, cf.hair, cf.error_exp)
         THEN cf'.pc = "expanded" /\ cf'.it = cf.it
         ELSE cf'.pc = "loop" /\ cf'.it = cf.it + 1

\* The array returned has max_iter slots: up to the index where the
\* expansion stopped, or to the last, every coefficient after the first is
\* other than 0, and every slot after is 0.
PaddedWithZeros ==
  (cf.pc = "expanded") =>
    LET stop == IF cf.it > cf.max_iter THEN cf.max_iter ELSE cf.it
    IN  /\ DOMAIN cf.result = 1..cf.max_iter
        /\ \A k \in 2..stop : cf.result[k] # 0
        /\ \A k \in (stop + 1)..cf.max_iter : cf.result[k] = 0

\* C23: to_continued_fraction returns max_iter coefficients, 25 by
\* default: coefficient k is the integer part of the k-th remainder, the
\* expansion stops at the first index whose fractional part is below the
\* tolerance in magnitude, every slot after that index is 0 and every
\* coefficient after the first up to that index is other than 0.
C23_ExpansionShape ==
  /\ []PaddedWithZeros
  /\ [][StoresIntegerPart]_vars

\* -25/49 has been expanded with the default length and tolerance into
\* 0, -1, -1, -23, -1 and twenty zeros: the double 1.0 / ( -1/24 ) was a
\* rounding error short of -24.
C23_Witness ==
  /\ cf.pc = "expanded"
  /\ cf.max_iter = 25
  /\ cf.error_exp = -6
  /\ cf.num = [n |-> -25, d |-> 49]
  /\ cf.it = 5
  /\ cf.result[1] = 0
  /\ cf.result[2] = -1
  /\ cf.result[3] = -1
  /\ cf.result[4] = -23
  /\ cf.result[5] = -1
  /\ \A k \in 6..25 : cf.result[k] = 0

-----------------------------------------------------------------------------
\* C25: pow_c applies the guard of pow and agrees with pow where it holds:
\* whenever exp < 0 and the numerator is 0, or exp >= 0 and the denominator
\* is 0, the approximator is not called, the real part pow_c returns is
\* what pow returns for the same operand, the operand unchanged, and the
\* imaginary part is zero.
C25_PowCAgreesWithPow ==
  (pw.pc = "c_ret") =>
    /\ (ZeroToNegative \/ InfiniteToNonNegative) <=> ~pw.c_invoked
    /\ (ZeroToNegative \/ InfiniteToNonNegative) =>
         /\ pw.result_c[1] = pw.result
         /\ pw.result_c[1] = pw.this
         /\ pw.result_c[2] = Frac(0, 1)

=============================================================================
